---- MODULE Spec2Model ----
(***************************************************************************)
(* Active health checking of upstream hosts (sofa-mosn).                   *)
(*                                                                         *)
(*   SpecTimer : the reusable timer (timer.start / stop / close) under any *)
(*               interleaving of callers, the runtime timer and workers.   *)
(*   SpecHC    : the healthChecker orchestrator (Start, Stop,              *)
(*               OnClusterMemberUpdate, startCheck, stopCheck, incHealthy, *)
(*               decHealthy) with one probe worker per host.               *)
(***************************************************************************)
EXTENDS Integers, Sequences, FiniteSets, TLC

\* ------------------------------------------------------------------ bounds
\* stop() callers that may be between their CAS and their channel send
MaxSenders == 2
\* worker goroutines of one timer alive at the same time
MaxWorkers == 3

\* hosts the cluster may report
NumHosts == 2
\* probe results processed in one behaviour
MaxProbes == 2
\* cfg.HealthyThreshold / cfg.UnhealthyThreshold of the checked cluster
HealthyThreshold == 1
UnhealthyThreshold == 1

\* callbacks that exist, registrations made, results reported through
\* incHealthy / decHealthy in one behaviour
NumCallbacks == 2
MaxRegistered == 2
MaxResults == 2

\* largest threshold a cluster is configured with, results fed to one checker
MaxThreshold == 3
MaxFed == 6

\* bits of a time.Duration in the model (64 in the program)
DurationBits == 6

\* goroutines calling NewStats, Stats instances created in one behaviour
NumCallers == 2
MaxCreated == 3

\* header matchers in one call of getRouterHeaders
MaxHeaders == 2

\* ------------------------------------------------------- program constants
\* make(chan bool, 1)
StopChanCap == 1
\* time.Timer's channel C holds one value
TimerChanCap == 1
\* DefaultInterval = 15 * time.Second
DefaultInterval == 15
\* const maxLabelCount = 10
maxLabelCount == 10

VARIABLES
    \* ---- timer (src/unnamed/part_001)
    started,      \* timer.started, 0 or 1
    stopped,      \* timer.stopped, 0 or 1
    stopChan,     \* timer.stopChan: the buffered values, each tagged with the
                  \* situation its stop() call found (history only)
    closed,       \* close(stopChan) has run
    innerTimer,   \* NilTimer, or [active, C]: runtime timer pending / values in C
    workers,      \* number of worker goroutines at each point of the closure
    senders,      \* stop() calls past the CAS, not yet past `stopChan <- true`
    \* ---- history of the current arm (reset by a successful start)
    fires,        \* callback invocations begun
    cbDone,       \* a callback invocation has returned
    stopCalled,   \* stop() has been called
    stopRetArmed, \* a stop() that passed its CAS while the arm was pending has
                  \* returned before any callback invocation began
    stopReturned, \* a stop() that passed its CAS has returned
    cancelTag,    \* tag of the value the worker's select took from stopChan
    dropCtx,      \* what the last start() that failed its CAS came after
    \* ---- healthChecker (src/pkg/upstream/healthcheck/factory.go)
    checkers,     \* hc.checkers: address -> per-host checker
    lph,          \* hc.localProcessHealthy
    mutex,        \* hc.mutex: "free" or its holder
    stats,        \* hc.stats: healthy gauge and the counters
    ctl,          \* the goroutine calling Start / Stop / OnClusterMemberUpdate
    tick,         \* per host: the probe worker's position in incHealthy/decHealthy
    \* ---- history
    rt,           \* progress of a Start / Stop / Start round trip
    sync,         \* the membership the calls since Start() add up to
    refused,      \* hosts whose last NewSession call returned nil
    \* ---- incHealthy / decHealthy / runCallbacks, step by step
    hostCheckCallbacks, \* hc.hostCheckCallbacks
    rep,          \* per host: the result its worker is reporting
    \* ---- one per-host checker fed probe results
    hyst,         \* the checker, its thresholds and the history of its results
    \* ---- the check interval (factory.go)
    cfg,            \* the v2.HealthCheck of the cluster: Interval, IntervalJitter
    intervalBase,   \* hc.intervalBase
    intervalJitter, \* hc.intervalJitter
    interval,       \* what getCheckInterval returned last
    \* ---- stats store (src/unnamed/part_000)
    metrics,      \* defaultStore.metrics
    storeMutex,   \* defaultStore.mutex: Unlocked or the caller holding it
    created,      \* Stats instances created so far (the next one's identity)
    caller,       \* per caller of NewStats: its position and arguments
    ret,          \* what the NewStats call that returned last returned
    \* ---- getRouterHeaders (src/pkg/router/utility.go)
    headers,      \* the argument of the call
    pos,          \* index of the matcher the range loop is at
    headerDatas   \* the result being built

timerVars == <<started, stopped, stopChan, closed, innerTimer, workers, senders,
               fires, cbDone, stopCalled, stopRetArmed, stopReturned, cancelTag,
               dropCtx>>

hcVars == <<checkers, lph, mutex, stats, ctl, tick, rt, sync, refused>>

cbVars == <<hostCheckCallbacks, rep>>

intervalVars == <<cfg, intervalBase, intervalJitter, interval>>

statsVars == <<metrics, storeMutex, created, caller, ret>>

routerVars == <<headers, pos, headerDatas>>

vars == <<timerVars, hcVars, cbVars, hyst, intervalVars, statsVars, routerVars>>

\* what the timer's steps leave alone
timerFrame == <<hcVars, cbVars, hyst, intervalVars, statsVars, routerVars>>

\* what the steps of Start, Stop, OnClusterMemberUpdate and the probes leave
\* alone
hcFrame == <<timerVars, cbVars, hyst, intervalVars, statsVars, routerVars>>

\* what the steps of incHealthy, decHealthy and runCallbacks leave alone
cbFrame == <<timerVars, checkers, mutex, ctl, tick, rt, sync, refused, hyst,
             intervalVars, statsVars, routerVars>>

\* what a checker handling its results leaves alone
hystFrame == <<timerVars, hcVars, cbVars, intervalVars, statsVars, routerVars>>

\* what newHealthChecker's interval setup and getCheckInterval leave alone
intervalFrame == <<timerVars, hcVars, cbVars, hyst, statsVars, routerVars>>

\* what NewStats and ResetAll leave alone
statsFrame == <<timerVars, hcVars, cbVars, hyst, intervalVars, routerVars>>

\* what getRouterHeaders leaves alone
routerFrame == <<timerVars, hcVars, cbVars, hyst, intervalVars, statsVars>>

\* ===================================================================== timer

NilTimer == [active |-> FALSE, C |-> 0, nil |-> TRUE]

WorkerPcs == {"select", "callback", "deferTimerStop", "deferStarted", "deferStopped"}

NoWorkers == [p \in WorkerPcs |-> 0]

RECURSIVE SumOver(_, _)
SumOver(f, S) == IF S = {} THEN 0
                 ELSE LET x == CHOOSE y \in S : TRUE
                      IN  f[x] + SumOver(f, S \ {x})

NumWorkers == SumOver(workers, WorkerPcs)

\* a worker leaves point p and arrives at point q ("gone": the goroutine ends)
Move(p, q) ==
    IF q = "gone" THEN [workers EXCEPT ![p] = @ - 1]
    ELSE [workers EXCEPT ![p] = @ - 1, ![q] = @ + 1]

\* the situation a stop() call finds the timer in
Situation ==
    IF workers["select"] > 0 /\ fires = 0 THEN "armed"
    ELSE IF workers["callback"] > 0 THEN "firing"
    ELSE IF NumWorkers > 0 THEN "exiting"
    ELSE "idle"

\* newTimer
TimerInit ==
    /\ started = 0
    /\ stopped = 0
    /\ stopChan = <<>>
    /\ closed = FALSE
    /\ innerTimer = NilTimer
    /\ workers = NoWorkers
    /\ senders = <<>>
    /\ fires = 0
    /\ cbDone = FALSE
    /\ stopCalled = FALSE
    /\ stopRetArmed = FALSE
    /\ stopReturned = FALSE
    /\ cancelTag = "none"
    /\ dropCtx = "none"

\* start without its compare-and-swap guard
StartCAS_Unguarded == TRUE

\* atomic.CompareAndSwapInt32(&t.started, 0, 1)
StartCAS == started = 0

\* timer.start, CAS failed: return
StartDropped ==
    /\ ~closed
    /\ ~StartCAS
    /\ dropCtx' = IF cbDone THEN "afterFire"
                  ELSE IF stopReturned THEN "afterStop"
                  ELSE "pending"
    /\ UNCHANGED timerFrame
    /\ UNCHANGED <<started, stopped, stopChan, closed, innerTimer, workers, senders,
                   fires, cbDone, stopCalled, stopRetArmed, stopReturned, cancelTag>>

\* timer.start, CAS won: NewTimer / Reset, then the worker goroutine is spawned
StartArm ==
    /\ ~closed
    /\ StartCAS
    /\ NumWorkers < MaxWorkers
    /\ started' = 1
    /\ innerTimer' = [active |-> TRUE, C |-> innerTimer.C, nil |-> FALSE]
    /\ workers' = [workers EXCEPT !["select"] = @ + 1]
    /\ fires' = 0
    /\ cbDone' = FALSE
    /\ stopCalled' = FALSE
    /\ stopRetArmed' = FALSE
    /\ stopReturned' = FALSE
    /\ cancelTag' = "none"
    /\ dropCtx' = "none"
    \* a stop() still between CAS and send belongs to an earlier arm
    /\ senders' = [i \in 1..Len(senders) |-> "stale"]
    /\ UNCHANGED timerFrame
    /\ UNCHANGED <<stopped, stopChan, closed>>

\* the runtime timer expires: a non-blocking send on C
TimerExpire ==
    /\ innerTimer.active
    /\ innerTimer' = [innerTimer EXCEPT !.active = FALSE,
                                        !.C = IF @ < TimerChanCap THEN @ + 1 ELSE @]
    /\ UNCHANGED timerFrame
    /\ UNCHANGED <<started, stopped, stopChan, closed, workers, senders,
                   fires, cbDone, stopCalled, stopRetArmed, stopReturned, cancelTag,
                   dropCtx>>

\* select, case <-t.innerTimer.C: t.callback() begins
WorkerFire ==
    /\ workers["select"] > 0
    /\ innerTimer.C > 0
    /\ innerTimer' = [innerTimer EXCEPT !.C = @ - 1]
    /\ workers' = Move("select", "callback")
    /\ fires' = IF fires < 2 THEN fires + 1 ELSE fires
    /\ UNCHANGED timerFrame
    /\ UNCHANGED <<started, stopped, stopChan, closed, senders,
                   cbDone, stopCalled, stopRetArmed, stopReturned, cancelTag, dropCtx>>

\* select, case <-t.stopChan: return (a closed channel is always ready)
WorkerCancel ==
    /\ workers["select"] > 0
    /\ \/ /\ stopChan # <<>>
          /\ cancelTag' = Head(stopChan)
          /\ stopChan' = Tail(stopChan)
       \/ /\ stopChan = <<>>
          /\ closed
          /\ cancelTag' = "closed"
          /\ UNCHANGED stopChan
    /\ workers' = Move("select", "deferTimerStop")
    /\ UNCHANGED timerFrame
    /\ UNCHANGED <<started, stopped, closed, innerTimer, senders,
                   fires, cbDone, stopCalled, stopRetArmed, stopReturned, dropCtx>>

\* t.callback() returns
CallbackReturn ==
    /\ workers["callback"] > 0
    /\ workers' = Move("callback", "deferTimerStop")
    /\ cbDone' = TRUE
    /\ UNCHANGED timerFrame
    /\ UNCHANGED <<started, stopped, stopChan, closed, innerTimer, senders,
                   fires, stopCalled, stopRetArmed, stopReturned, cancelTag, dropCtx>>

\* defer: t.innerTimer.Stop() (C is not drained)
DeferTimerStop ==
    /\ workers["deferTimerStop"] > 0
    /\ innerTimer' = [innerTimer EXCEPT !.active = FALSE]
    /\ workers' = Move("deferTimerStop", "deferStarted")
    /\ UNCHANGED timerFrame
    /\ UNCHANGED <<started, stopped, stopChan, closed, senders,
                   fires, cbDone, stopCalled, stopRetArmed, stopReturned, cancelTag,
                   dropCtx>>

\* defer: atomic.StoreInt32(&t.started, 0)
DeferStarted ==
    /\ workers["deferStarted"] > 0
    /\ started' = 0
    /\ workers' = Move("deferStarted", "deferStopped")
    /\ UNCHANGED timerFrame
    /\ UNCHANGED <<stopped, stopChan, closed, innerTimer, senders,
                   fires, cbDone, stopCalled, stopRetArmed, stopReturned, cancelTag,
                   dropCtx>>

\* defer: atomic.StoreInt32(&t.stopped, 0); the goroutine ends
DeferStopped ==
    /\ workers["deferStopped"] > 0
    /\ stopped' = 0
    /\ workers' = Move("deferStopped", "gone")
    /\ UNCHANGED timerFrame
    /\ UNCHANGED <<started, stopChan, closed, innerTimer, senders,
                   fires, cbDone, stopCalled, stopRetArmed, stopReturned, cancelTag,
                   dropCtx>>

\* atomic.CompareAndSwapInt32(&t.stopped, 0, 1)
StopCAS == stopped = 0

\* timer.stop, CAS failed: return (only the history records the call)
StopNoop ==
    /\ ~closed
    /\ ~StopCAS
    /\ ~stopCalled
    /\ stopCalled' = TRUE
    /\ UNCHANGED timerFrame
    /\ UNCHANGED <<started, stopped, stopChan, closed, innerTimer, workers, senders,
                   fires, cbDone, stopRetArmed, stopReturned, cancelTag, dropCtx>>

\* timer.stop, CAS won: the caller goes on to the channel send
StopBegin ==
    /\ ~closed
    /\ StopCAS
    /\ Len(senders) < MaxSenders
    /\ stopped' = 1
    /\ senders' = Append(senders, Situation)
    /\ stopCalled' = TRUE
    /\ UNCHANGED timerFrame
    /\ UNCHANGED <<started, stopChan, closed, innerTimer, workers,
                   fires, cbDone, stopRetArmed, stopReturned, cancelTag, dropCtx>>

\* t.stopChan <- true: possible only while the buffer has room; stop() returns
StopSend ==
    /\ senders # <<>>
    /\ ~closed
    /\ Len(stopChan) < StopChanCap
    /\ \E i \in 1..Len(senders) :
          /\ stopChan' = Append(stopChan, senders[i])
          /\ senders' = SubSeq(senders, 1, i - 1) \o SubSeq(senders, i + 1, Len(senders))
          /\ stopReturned' = (stopReturned \/ senders[i] # "stale")
          /\ stopRetArmed' = (stopRetArmed \/ (senders[i] = "armed" /\ fires = 0))
    /\ UNCHANGED timerFrame
    /\ UNCHANGED <<started, stopped, closed, innerTimer, workers,
                   fires, cbDone, stopCalled, cancelTag, dropCtx>>

\* timer.close: only once the owner has stopped calling start and stop
Close ==
    /\ ~closed
    /\ senders = <<>>
    /\ closed' = TRUE
    /\ UNCHANGED timerFrame
    /\ UNCHANGED <<started, stopped, stopChan, innerTimer, workers, senders,
                   fires, cbDone, stopCalled, stopRetArmed, stopReturned, cancelTag,
                   dropCtx>>

\* ------------------------------------------------------------ timer claims

\* workers that have not yet stored started = 0
ActiveWorkers ==
    workers["select"] + workers["callback"] + workers["deferTimerStop"]
        + workers["deferStarted"]

\* C3: a stop() called while the timer is idle leaves no cancellation behind:
\* the worker of the next start never takes its cancel branch on a value that
\* an idle stop() left in stopChan while no stop() was called after that start.
C3_IdleStopLeavesNoCancellation ==
    ~(cancelTag = "idle" /\ ~stopCalled)

\* C4: stop() never blocks: no stop() call is ever stuck at its channel send
\* with the buffer full and no worker left to drain it.
C4_StopNeverBlocks ==
    ~(~closed /\ senders # <<>> /\ Len(stopChan) = StopChanCap /\ NumWorkers = 0)

\* C5 (as stated): at most one worker goroutine exists, at most one callback
\* invocation is in flight, and an arm invokes the callback at most once.
C5_AtMostOneWorkerExists ==
    /\ NumWorkers <= 1
    /\ workers["callback"] <= 1
    /\ fires <= 1

\* C5 (amended): at most one worker is waiting in its select, running the
\* callback or still ahead of its deferred store of started = 0; at most one
\* callback invocation is in flight; an arm invokes the callback at most once.
\* Workers that only have their store of stopped = 0 left may coexist with it.
C5_AtMostOneActiveWorker ==
    /\ ActiveWorkers <= 1
    /\ workers["callback"] <= 1
    /\ fires <= 1
    /\ (started = 0 => ActiveWorkers = 0)

\* C5 witness: the callback of a new arm runs while the worker of the previous
\* arm has not yet ended.
C5_Witness ==
    /\ workers["callback"] = 1
    /\ workers["deferStopped"] > 0
    /\ fires = 1

\* C6: a start() issued after the callback has returned, or after a stop() has
\* returned, is never dropped.
C6_StartNeverDropped ==
    dropCtx \notin {"afterFire", "afterStop"}

\* C7: once a stop() called while the arm was pending has returned before the
\* callback began, the callback of that arm is not invoked.
C7_NoTickAfterStop ==
    ~(workers["callback"] > 0 /\ stopRetArmed)

TimerNext ==
    \/ StartDropped
    \/ StartArm
    \/ TimerExpire
    \/ WorkerFire
    \/ WorkerCancel
    \/ CallbackReturn
    \/ DeferTimerStop
    \/ DeferStarted
    \/ DeferStopped
    \/ StopNoop
    \/ StopBegin
    \/ StopSend
    \/ Close

\* ============================================================ healthChecker

Hosts == 1..NumHosts

Min(S) == CHOOSE x \in S : \A y \in S : x <= y

FailureTypes == {"FailureActive", "FailureNetwork"}

\* ---- per-host checker: newChecker and its handling of one probe result
\* a new checker is Healthy, both consecutive counts zero
NewChecker == [healthy |-> TRUE, succ |-> 0, fail |-> 0, fresh |-> TRUE,
               stopping |-> FALSE]

\* a failure flips a Healthy checker at once
OnFailure_Eager(c, unhealthyThreshold) ==
    [checker |-> [healthy |-> FALSE, succ |-> 0, fail |-> 1,
                  fresh |-> FALSE, stopping |-> c.stopping],
     changed |-> c.healthy]

\* one more success: the failure count is zeroed; Unhealthy flips to Healthy
\* once the success count has reached healthyThreshold (counts saturate there)
OnSuccess(c, healthyThreshold) ==
    LET n == IF c.succ < healthyThreshold THEN c.succ + 1 ELSE c.succ
        changed == ~c.healthy /\ n >= healthyThreshold
    IN  [checker |-> [healthy |-> c.healthy \/ changed, succ |-> n, fail |-> 0,
                      fresh |-> FALSE, stopping |-> c.stopping],
         changed |-> changed]

\* one more failure: the success count is zeroed; Healthy flips to Unhealthy
\* once the failure count has reached unhealthyThreshold
OnFailure(c, unhealthyThreshold) ==
    LET n == IF c.fail < unhealthyThreshold THEN c.fail + 1 ELSE c.fail
        changed == c.healthy /\ n >= unhealthyThreshold
    IN  [checker |-> [healthy |-> c.healthy /\ ~changed, succ |-> 0, fail |-> n,
                      fresh |-> FALSE, stopping |-> c.stopping],
         changed |-> changed]

\* a checker of the checked cluster handles a success / a failure
HandleSuccess(c) == OnSuccess(c, HealthyThreshold)

HandleFailure(c) == OnFailure(c, UnhealthyThreshold)

\* ---- the orchestrator
\* the map lookup always misses
HasChecker_Never(h) == FALSE

\* _, ok := hc.checkers[addr]
HasChecker(h) == h \in DOMAIN checkers

\* the insertion is skipped
Inserted_Dropped(h) == checkers

\* hc.checkers[addr] = c
Inserted(h) == [k \in DOMAIN checkers \cup {h} |->
                    IF k = h THEN NewChecker ELSE checkers[k]]

\* the nil check is missing: the checker is created on the nil session
LeftUnchecked_Inserted(h) == Inserted(h)

\* if s == nil { log; return }: the host is left without a checker
LeftUnchecked(h) == checkers

\* the checker is removed without its Stop being called
StopSignalled_Skipped(h) == checkers

\* c.Stop(): the checker is told to stop; it is still in the map
StopSignalled(h) == [checkers EXCEPT ![h].stopping = TRUE]

\* the entry is left in the map
Deleted_Kept(h) == checkers

\* delete(hc.checkers, addr)
Deleted(h) == [k \in DOMAIN checkers \ {h} |-> checkers[k]]

NoStats == [healthy |-> 0, success |-> 0, failure |-> 0,
            activeFailure |-> 0, networkFailure |-> 0, passiveFailure |-> 0]

\* Stop publishes the count as Start and OnClusterMemberUpdate do
Published_Always(op) == [stats EXCEPT !.healthy = lph]

\* hc.stats.healthy.Update(hc.localProcessHealthy) ends Start and
\* OnClusterMemberUpdate; Stop has no such line
Published(op) == IF op = "Stop" THEN stats ELSE [stats EXCEPT !.healthy = lph]

\* op: the public operation in progress; add / del: the hosts it has still to
\* hand to startCheck / stopCheck; pc, tmp, delta: the ++ / -- in progress;
\* last: how the last startCheck / stopCheck call of this operation went;
\* lph0: localProcessHealthy when Stop was called (history)
CtlIdle == [op |-> "idle", add |-> {}, del |-> {}, pc |-> "loop", tmp |-> 0,
            delta |-> 0, last |-> "none", lph0 |-> 0]

TickIdle == [pc |-> "idle", tmp |-> 0, delta |-> 0, reason |-> "none"]

\* a round trip: Start on an empty map (start1, then up), Stop (stopping, then
\* down) and Start again (start2, then done), all three on the same host list
\* hosts: the host list of the three calls; keys: the checker keys after the
\* first Start; created: the hosts the second Start created a checker for;
\* optimistic: each of those was Healthy with zero counts when created; same:
\* NewSession answered in the second Start as in the first; hadUnhealthy: a
\* checker was Unhealthy when Stop was called
NoRoundTrip == [phase |-> "none", hosts |-> {}, keys |-> {}, created |-> {},
                optimistic |-> TRUE, same |-> TRUE, hadUnhealthy |-> FALSE]

\* Start() on an empty map followed by OnClusterMemberUpdate calls, NewSession
\* never returning nil: expected is the initial hosts plus the added minus the
\* removed hosts; moved: one of the updates added a new host and removed a
\* checked one
NoSync == [phase |-> "none", expected |-> {}, moved |-> FALSE]

\* newHealthChecker
HCInit ==
    /\ checkers = << >>
    /\ lph = 0
    /\ mutex = "free"
    /\ stats = NoStats
    /\ ctl = CtlIdle
    /\ tick = [h \in Hosts |-> TickIdle]
    /\ rt = NoRoundTrip
    /\ sync = NoSync
    /\ refused = {}

\* healthChecker.Start is called; hostList is what the cluster's priority set
\* reports
CallStart ==
    /\ ctl.op = "idle"
    /\ \E hostList \in SUBSET Hosts :
          /\ ctl' = [CtlIdle EXCEPT !.op = "Start", !.add = hostList]
          /\ rt' = IF rt.phase = "down" /\ hostList = rt.hosts
                      THEN [rt EXCEPT !.phase = "start2"]
                   ELSE IF DOMAIN checkers = {}
                      THEN [NoRoundTrip EXCEPT !.phase = "start1", !.hosts = hostList]
                   ELSE NoRoundTrip
          /\ sync' = IF DOMAIN checkers = {}
                        THEN [NoSync EXCEPT !.phase = "tracking",
                                            !.expected = hostList]
                        ELSE NoSync
    /\ UNCHANGED <<checkers, lph, mutex, stats, tick, refused>>
    /\ UNCHANGED hcFrame

\* healthChecker.Stop is called; hostList is what the cluster's priority set
\* reports
CallStop ==
    /\ ctl.op = "idle"
    /\ \E hostList \in SUBSET Hosts :
          /\ ctl' = [CtlIdle EXCEPT !.op = "Stop", !.del = hostList, !.lph0 = lph]
          /\ rt' = IF rt.phase \in {"up", "done"} /\ hostList = rt.hosts
                      THEN [rt EXCEPT !.phase = "stopping", !.created = {},
                                      !.same = TRUE, !.optimistic = TRUE,
                                      !.hadUnhealthy = \E h \in DOMAIN checkers :
                                                           ~checkers[h].healthy]
                   ELSE NoRoundTrip
    /\ sync' = NoSync
    /\ UNCHANGED <<checkers, lph, mutex, stats, tick, refused>>
    /\ UNCHANGED hcFrame

\* healthChecker.OnClusterMemberUpdate(hostsAdd, hostsDel) is called with the
\* hosts that joined and the hosts that left the cluster
CallUpdate ==
    /\ ctl.op = "idle"
    /\ \E hostsAdd \in SUBSET Hosts, hostsDel \in SUBSET Hosts :
          /\ hostsAdd \cap hostsDel = {}
          /\ ctl' = [CtlIdle EXCEPT !.op = "Update", !.add = hostsAdd,
                                    !.del = hostsDel]
          /\ sync' = IF sync.phase = "tracking"
                        THEN [sync EXCEPT
                                 !.expected = (@ \cup hostsAdd) \ hostsDel,
                                 !.moved = @ \/ (/\ hostsAdd \ sync.expected # {}
                                                 /\ hostsDel \cap sync.expected # {})]
                        ELSE sync
    /\ rt' = NoRoundTrip
    /\ UNCHANGED <<checkers, lph, mutex, stats, tick, refused>>
    /\ UNCHANGED hcFrame

\* startCheck(host), the address already has a checker: lock, look up, unlock
StartCheckExisting ==
    /\ ctl.op # "idle" /\ ctl.pc = "loop" /\ ctl.add # {}
    /\ mutex = "free"
    /\ LET h == Min(ctl.add) IN
          /\ HasChecker(h)
          /\ ctl' = [ctl EXCEPT !.add = @ \ {h}, !.last = "startCheck: exists"]
    /\ UNCHANGED <<checkers, lph, mutex, stats, tick, rt, sync, refused>>
    /\ UNCHANGED hcFrame

\* startCheck(host), sessionFactory.NewSession returns nil: log and return
StartCheckNil ==
    /\ ctl.op # "idle" /\ ctl.pc = "loop" /\ ctl.add # {}
    /\ mutex = "free"
    /\ LET h == Min(ctl.add) IN
          /\ ~HasChecker(h)
          /\ checkers' = LeftUnchecked(h)
          /\ ctl' = [ctl EXCEPT !.add = @ \ {h}, !.last = "startCheck: nil session"]
          /\ rt' = IF rt.phase = "start2"
                      THEN [rt EXCEPT !.same = @ /\ h \notin rt.keys]
                      ELSE rt
          /\ refused' = refused \cup {h}
    /\ sync' = NoSync
    /\ UNCHANGED <<lph, mutex, stats, tick>>
    /\ UNCHANGED hcFrame

\* startCheck(host): the checker is created, inserted and started; then
\* hc.localProcessHealthy++ reads the count (the mutex stays held)
StartCheckCreate ==
    /\ ctl.op # "idle" /\ ctl.pc = "loop" /\ ctl.add # {}
    /\ mutex = "free"
    /\ LET h == Min(ctl.add) IN
          /\ ~HasChecker(h)
          /\ checkers' = Inserted(h)
          /\ ctl' = [ctl EXCEPT !.add = @ \ {h},
                                !.last = IF h \in refused
                                            THEN "startCheck: created after nil"
                                            ELSE "startCheck: created",
                                !.pc = "store", !.tmp = lph, !.delta = 1]
          /\ rt' = IF rt.phase = "start2"
                      THEN [rt EXCEPT !.created = @ \cup {h},
                                      !.same = @ /\ h \in rt.keys,
                                      !.optimistic = @ /\ checkers'[h].healthy
                                          /\ checkers'[h].succ = 0
                                          /\ checkers'[h].fail = 0]
                      ELSE rt
          /\ refused' = refused \ {h}
    /\ mutex' = "ctl"
    /\ UNCHANGED <<lph, stats, tick, sync>>
    /\ UNCHANGED hcFrame

\* stopCheck(host), no checker for the address: lock, look up, unlock
StopCheckAbsent ==
    /\ ctl.op # "idle" /\ ctl.pc = "loop" /\ ctl.add = {} /\ ctl.del # {}
    /\ mutex = "free"
    /\ LET h == Min(ctl.del) IN
          /\ ~HasChecker(h)
          /\ ctl' = [ctl EXCEPT !.del = @ \ {h}, !.last = "stopCheck: absent"]
    /\ UNCHANGED <<checkers, lph, mutex, stats, tick, rt, sync, refused>>
    /\ UNCHANGED hcFrame

\* stopCheck(host), the address has a checker: lock, look up, c.Stop()
StopCheckSignal ==
    /\ ctl.op # "idle" /\ ctl.pc = "loop" /\ ctl.add = {} /\ ctl.del # {}
    /\ mutex = "free"
    /\ LET h == Min(ctl.del) IN
          /\ HasChecker(h)
          /\ checkers' = StopSignalled(h)
          /\ ctl' = [ctl EXCEPT !.pc = "delete"]
    /\ mutex' = "ctl"
    /\ UNCHANGED <<lph, stats, tick, rt, sync, refused>>
    /\ UNCHANGED hcFrame

\* stopCheck(host), after c.Stop(): delete(hc.checkers, addr); then
\* hc.localProcessHealthy-- reads the count (the mutex stays held)
StopCheckRemove ==
    /\ ctl.pc = "delete"
    /\ mutex = "ctl"
    /\ LET h == Min(ctl.del) IN
          /\ checkers' = Deleted(h)
          /\ ctl' = [ctl EXCEPT !.del = @ \ {h}, !.last = "stopCheck: removed",
                                !.pc = "store", !.tmp = lph, !.delta = -1]
    /\ UNCHANGED <<lph, mutex, stats, tick, rt, sync, refused>>
    /\ UNCHANGED hcFrame

\* the ++ / -- of startCheck / stopCheck writes the count; the deferred Unlock
CtlStore ==
    /\ ctl.pc = "store"
    /\ mutex = "ctl"
    /\ lph' = ctl.tmp + ctl.delta
    /\ mutex' = "free"
    /\ ctl' = [ctl EXCEPT !.pc = "loop"]
    /\ UNCHANGED <<checkers, stats, tick, rt, sync, refused>>
    /\ UNCHANGED hcFrame

\* Start / OnClusterMemberUpdate end with hc.stats.healthy.Update; Stop returns
Return ==
    /\ ctl.op # "idle" /\ ctl.pc = "loop" /\ ctl.add = {} /\ ctl.del = {}
    /\ stats' = Published(ctl.op)
    /\ ctl' = CtlIdle
    /\ rt' = CASE rt.phase = "start1"   -> [rt EXCEPT !.phase = "up",
                                                       !.keys = DOMAIN checkers]
               [] rt.phase = "stopping" -> [rt EXCEPT !.phase = "down"]
               [] rt.phase = "start2"   -> [rt EXCEPT !.phase = "done"]
               [] OTHER                 -> rt
    /\ UNCHANGED <<checkers, lph, mutex, tick, sync, refused>>
    /\ UNCHANGED hcFrame

\* the probes processed so far
Probes == stats.success + stats.failure

\* a probe of host h succeeds: the checker counts it and calls incHealthy,
\* which counts the success and, when changed, reads the count for its ++;
\* otherwise it goes straight on to runCallbacks
ProbeSuccess(h) ==
    /\ HasChecker(h)
    /\ tick[h].pc = "idle"
    /\ Probes < MaxProbes
    /\ LET r == HandleSuccess(checkers[h]) IN
          /\ checkers' = [checkers EXCEPT ![h] = r.checker]
          /\ IF r.changed
                THEN /\ tick' = [tick EXCEPT ![h] = [pc |-> "store", tmp |-> lph,
                                                     delta |-> 1, reason |-> "none"]]
                     /\ stats' = [stats EXCEPT !.success = @ + 1]
                ELSE /\ tick' = tick
                     /\ stats' = [stats EXCEPT !.success = @ + 1, !.healthy = lph]
    /\ UNCHANGED <<lph, mutex, ctl, rt, sync, refused>>
    /\ UNCHANGED hcFrame

\* a probe of host h fails: the checker counts it and calls decHealthy, which
\* counts the failure and, when changed, reads the count for its --
ProbeFailure(h, reason) ==
    /\ HasChecker(h)
    /\ tick[h].pc = "idle"
    /\ Probes < MaxProbes
    /\ LET r == HandleFailure(checkers[h]) IN
          /\ checkers' = [checkers EXCEPT ![h] = r.checker]
          /\ IF r.changed
                THEN /\ tick' = [tick EXCEPT ![h] = [pc |-> "store", tmp |-> lph,
                                                     delta |-> -1, reason |-> reason]]
                     /\ stats' = [stats EXCEPT !.failure = @ + 1]
                ELSE /\ tick' = tick
                     /\ stats' = [stats EXCEPT !.failure = @ + 1,
                                    !.activeFailure =
                                        IF reason = "FailureActive" THEN @ + 1 ELSE @,
                                    !.networkFailure =
                                        IF reason = "FailureNetwork" THEN @ + 1 ELSE @,
                                    !.healthy = lph]
    /\ UNCHANGED <<lph, mutex, ctl, rt, sync, refused>>
    /\ UNCHANGED hcFrame

\* incHealthy / decHealthy with changed: the ++ / -- writes the count (hc.mutex
\* is not taken); decHealthy counts the reason; runCallbacks updates the gauge
TickStore(h) ==
    /\ tick[h].pc = "store"
    /\ lph' = tick[h].tmp + tick[h].delta
    /\ stats' = [stats EXCEPT
                    !.activeFailure =
                        IF tick[h].reason = "FailureActive" THEN @ + 1 ELSE @,
                    !.networkFailure =
                        IF tick[h].reason = "FailureNetwork" THEN @ + 1 ELSE @,
                    !.healthy = lph']
    /\ tick' = [tick EXCEPT ![h] = TickIdle]
    /\ UNCHANGED <<checkers, mutex, ctl, rt, sync, refused>>
    /\ UNCHANGED hcFrame

\* ---------------------------------------------------- healthChecker claims

HealthyCheckers == {h \in DOMAIN checkers : checkers[h].healthy}

\* no ++ / -- of localProcessHealthy is between its read and its write
Quiescent == ctl.pc = "loop" /\ \A h \in Hosts : tick[h].pc = "idle"

\* C1: whenever no update of the count is in progress, localProcessHealthy is
\* the number of checkers of the map that are Healthy, and it is not negative.
C1_CountIsHealthyCheckers ==
    Quiescent => (lph = Cardinality(HealthyCheckers) /\ lph >= 0)

\* C2: no lost update: every ++ / -- of localProcessHealthy (startCheck,
\* stopCheck, incHealthy, decHealthy) changes the count by exactly its own
\* increment, whatever ran between its read and its write.
C2_NoLostUpdate ==
    [][/\ (ctl.pc = "store" /\ ctl'.pc = "loop") => lph' = lph + ctl.delta
       /\ \A h \in Hosts :
             (tick[h].pc = "store" /\ tick'[h].pc = "idle")
                 => lph' = lph + tick[h].delta]_vars

\* C8: when Stop() returns the checker map is empty.
C8_StopEmptiesTheMap ==
    [][(ctl.op = "Stop" /\ ctl'.op = "idle") => DOMAIN checkers' = {}]_vars

\* C9: startCheck for an address that already has a checker changes neither
\* the map nor any checker nor localProcessHealthy nor the stats, and does not
\* call NewSession.
C9_AddIsIdempotent ==
    [][(/\ ctl.op # "idle" /\ ctl.pc = "loop" /\ ctl.add # {}
        /\ Min(ctl.add) \in DOMAIN checkers
        /\ ctl' # ctl)
       => (/\ checkers' = checkers
           /\ lph' = lph
           /\ stats' = stats
           /\ ctl'.pc = "loop"
           /\ ctl'.last = "startCheck: exists")]_vars

\* C9 witness: the last startCheck call of the operation in progress found a
\* checker for its address, and the map holds a checker that has processed a
\* probe.
C9_Witness ==
    /\ ctl.last = "startCheck: exists"
    /\ \E h \in DOMAIN checkers : ~checkers[h].fresh

\* what the round trip must have produced once its second Start has returned
RoundTripRestored ==
    /\ DOMAIN checkers = rt.keys
    /\ rt.created = rt.keys
    /\ rt.optimistic

C11_MembershipSync ==
    (sync.phase = "tracking" /\ ctl.op = "idle")
        => /\ DOMAIN checkers = sync.expected
           /\ stats.failure = 0 => lph = Cardinality(DOMAIN checkers)

\* C11 witness: an update that added a new host and removed a checked one has
\* returned, no probe has failed, and checkers are left.
C11_Witness ==
    /\ sync.phase = "tracking"
    /\ ctl.op = "idle"
    /\ sync.moved
    /\ stats.failure = 0
    /\ DOMAIN checkers # {}
    /\ lph = Cardinality(DOMAIN checkers)

\* the host stopCheck is working on
Stopping == {h \in DOMAIN checkers : checkers[h].stopping}

\* C13 (as stated): a checker whose Stop has been signalled by stopCheck is no
\* longer in the checker map.
C13_RemovedBeforeStopSignal ==
    Stopping = {}

\* C13 (amended): stopCheck signals the checker's Stop first and removes it
\* from the map afterwards, both under hc.mutex: a checker leaves the map only
\* after its Stop was signalled, and one whose Stop was signalled is still in
\* the map only while stopCheck holds the mutex, about to delete it.
C13_StopSignalBeforeRemoval ==
    /\ [](\A h \in Stopping : ctl.pc = "delete" /\ mutex = "ctl" /\ h = Min(ctl.del))
    /\ [][\A h \in DOMAIN checkers :
             h \notin DOMAIN checkers' => checkers[h].stopping]_vars

\* C13 witness: stopCheck has removed a checker (its Stop was signalled while
\* it was in the map) and is about to decrement the count.
C13_Witness ==
    /\ ctl.last = "stopCheck: removed"
    /\ ctl.pc = "store"
    /\ Stopping = {}

\* C14 (as stated): localProcessHealthy is the same when Stop() returns as
\* when it was called, and no step of Stop() changes the healthy gauge or a
\* counter.
C14_StopLeavesCountAndStats ==
    [][/\ (ctl.op = "Stop" /\ ctl'.op = "idle") => lph' = ctl.lph0
       /\ (ctl.op = "Stop" /\ ctl' # ctl) => stats' = stats]_vars

\* C14 (amended): no step of Stop() changes the healthy gauge or a counter;
\* localProcessHealthy is changed by Stop() only through the decrement that
\* stopCheck makes for each checker it removes.
C14_StopOnlyDecrementsCount ==
    [][(ctl.op = "Stop" /\ ctl' # ctl)
          => /\ stats' = stats
             /\ lph' # lph => (ctl.pc = "store" /\ ctl.delta = -1
                               /\ lph' = ctl.tmp - 1)]_vars

\* C14 witness: Stop() has removed a checker and decremented the count, after
\* probes were counted, and has no host left to stop.
C14_Witness ==
    /\ ctl.op = "Stop"
    /\ ctl.pc = "loop"
    /\ ctl.del = {}
    /\ ctl.last = "stopCheck: removed"
    /\ lph = ctl.lph0 - 1
    /\ Probes > 0

\* C16: when NewSession returns nil, startCheck inserts no checker (so no
\* probe worker exists for the host), leaves localProcessHealthy and the stats
\* unchanged and releases the mutex; and a later startCheck for the same host
\* in which NewSession returns a session creates its checker, new and Healthy,
\* and goes on to increment the count.
C16_NilSessionLeavesNoState ==
    [][/\ (ctl'.last = "startCheck: nil session" /\ ctl'.add # ctl.add)
            => /\ checkers' = checkers
               /\ lph' = lph
               /\ stats' = stats
               /\ tick' = tick
               /\ mutex' = "free"
               /\ ctl'.pc = "loop"
       /\ (/\ ctl.op # "idle" /\ ctl.pc = "loop" /\ ctl.add # {}
           /\ Min(ctl.add) \in refused
           /\ Min(ctl.add) \notin DOMAIN checkers
           /\ ctl' # ctl
           /\ ctl'.last # "startCheck: nil session")
            => /\ Min(ctl.add) \in DOMAIN checkers'
               /\ checkers'[Min(ctl.add)] = NewChecker
               /\ ctl'.pc = "store"
               /\ ctl'.delta = 1]_vars

\* C16 witness: an OnClusterMemberUpdate has created the checker of a host
\* for which NewSession had returned nil before, and has incremented the count.
C16_Witness ==
    /\ ctl.op = "Update"
    /\ ctl.last = "startCheck: created after nil"
    /\ ctl.pc = "loop"
    /\ lph = Cardinality(DOMAIN checkers)
    /\ lph > 0

\* ============================== incHealthy / decHealthy / runCallbacks

\* the callbacks a caller may register
Callbacks == 1..NumCallbacks

\* the results reported so far
Results == stats.success + stats.failure

\* pc: where the worker of the host is in incHealthy / decHealthy; changed,
\* isHealthy, reason: the result it reported; tmp: the count its ++ / -- read;
\* cbs: the slice its range loop iterates; i: the next index of the loop;
\* history: registered, the callbacks registered when the result was
\* reported; counted: the success / failure counter has been incremented;
\* adjusted: localProcessHealthy has been updated for the result (at once
\* when changed is false); log: the callback invocations made for the result
RepIdle == [pc |-> "idle", changed |-> FALSE, isHealthy |-> FALSE,
            reason |-> "none", tmp |-> 0, cbs |-> <<>>, i |-> 0,
            registered |-> <<>>, counted |-> FALSE, adjusted |-> FALSE,
            log |-> <<>>]

\* newHealthChecker: hostCheckCallbacks: []types.HealthCheckCb{}
CbInit ==
    /\ hostCheckCallbacks = <<>>
    /\ rep = [h \in Hosts |-> RepIdle]

\* AddHostCheckCompleteCb(cb): append; the list is not locked, callers register
\* while no result is being processed
AddHostCheckCompleteCb(cb) ==
    /\ Len(hostCheckCallbacks) < MaxRegistered
    /\ \A h \in Hosts : rep[h].pc = "idle"
    /\ hostCheckCallbacks' = Append(hostCheckCallbacks, cb)
    /\ UNCHANGED <<rep, lph, stats>>
    /\ UNCHANGED cbFrame

\* incHealthy(host, changed): hc.stats.success.Inc(1); if changed, the ++ reads
\* the count
IncHealthy(h, changed) ==
    /\ rep[h].pc = "idle"
    /\ Results < MaxResults
    /\ stats' = [stats EXCEPT !.success = @ + 1]
    /\ rep' = [rep EXCEPT ![h] =
                  [RepIdle EXCEPT !.pc = IF changed THEN "store" ELSE "run",
                                  !.changed = changed, !.isHealthy = TRUE,
                                  !.tmp = lph, !.registered = hostCheckCallbacks,
                                  !.counted = TRUE, !.adjusted = ~changed]]
    /\ UNCHANGED <<hostCheckCallbacks, lph>>
    /\ UNCHANGED cbFrame

\* decHealthy(host, reason, changed): hc.stats.failure.Inc(1); if changed, the
\* -- reads the count
DecHealthy(h, reason, changed) ==
    /\ rep[h].pc = "idle"
    /\ Results < MaxResults
    /\ stats' = [stats EXCEPT !.failure = @ + 1]
    /\ rep' = [rep EXCEPT ![h] =
                  [RepIdle EXCEPT !.pc = IF changed THEN "store" ELSE "switch",
                                  !.changed = changed, !.isHealthy = FALSE,
                                  !.reason = reason,
                                  !.tmp = lph, !.registered = hostCheckCallbacks,
                                  !.counted = TRUE, !.adjusted = ~changed]]
    /\ UNCHANGED <<hostCheckCallbacks, lph>>
    /\ UNCHANGED cbFrame

\* the ++ of incHealthy / the -- of decHealthy writes the count
Adjust(h) ==
    /\ rep[h].pc = "store"
    /\ lph' = IF rep[h].isHealthy THEN rep[h].tmp + 1 ELSE rep[h].tmp - 1
    /\ rep' = [rep EXCEPT ![h].pc = IF rep[h].isHealthy THEN "run" ELSE "switch",
                          ![h].adjusted = TRUE]
    /\ UNCHANGED <<hostCheckCallbacks, stats>>
    /\ UNCHANGED cbFrame

\* decHealthy: switch reason
SwitchReason(h) ==
    /\ rep[h].pc = "switch"
    /\ stats' = [stats EXCEPT
                    !.activeFailure =
                        IF rep[h].reason = "FailureActive" THEN @ + 1 ELSE @,
                    !.networkFailure =
                        IF rep[h].reason = "FailureNetwork" THEN @ + 1 ELSE @]
    /\ rep' = [rep EXCEPT ![h].pc = "run"]
    /\ UNCHANGED <<hostCheckCallbacks, lph>>
    /\ UNCHANGED cbFrame

\* runCallbacks: hc.stats.healthy.Update(hc.localProcessHealthy); the range
\* loop takes the slice
RunCallbacks(h) ==
    /\ rep[h].pc = "run"
    /\ stats' = [stats EXCEPT !.healthy = lph]
    /\ rep' = [rep EXCEPT ![h].pc = "call", ![h].cbs = hostCheckCallbacks,
                          ![h].i = 1]
    /\ UNCHANGED <<hostCheckCallbacks, lph>>
    /\ UNCHANGED cbFrame

\* the range loop visits the slice from its last element
RangeElement_Reversed(cbs, i) == cbs[Len(cbs) + 1 - i]

\* for _, cb := range hc.hostCheckCallbacks: the i-th iteration's cb
RangeElement(cbs, i) == cbs[i]

\* cb(host, changed, isHealthy)
Callback(h) ==
    /\ rep[h].pc = "call"
    /\ rep[h].i <= Len(rep[h].cbs)
    /\ rep' = [rep EXCEPT
                  ![h].i = @ + 1,
                  ![h].log = Append(@, [cb |-> RangeElement(rep[h].cbs, rep[h].i),
                                        host |-> h,
                                        changed |-> rep[h].changed,
                                        isHealthy |-> rep[h].isHealthy,
                                        counted |-> rep[h].counted,
                                        adjusted |-> rep[h].adjusted])]
    /\ UNCHANGED <<hostCheckCallbacks, lph, stats>>
    /\ UNCHANGED cbFrame

\* the loop is over: runCallbacks and incHealthy / decHealthy return
ResultDone(h) ==
    /\ rep[h].pc = "call"
    /\ rep[h].i > Len(rep[h].cbs)
    /\ rep' = [rep EXCEPT ![h] = RepIdle]
    /\ UNCHANGED <<hostCheckCallbacks, lph, stats>>
    /\ UNCHANGED cbFrame

CbNext ==
    \/ \E cb \in Callbacks : AddHostCheckCompleteCb(cb)
    \/ \E h \in Hosts, changed \in BOOLEAN : IncHealthy(h, changed)
    \/ \E h \in Hosts, reason \in FailureTypes, changed \in BOOLEAN :
          DecHealthy(h, reason, changed)
    \/ \E h \in Hosts : Adjust(h)
    \/ \E h \in Hosts : SwitchReason(h)
    \/ \E h \in Hosts : RunCallbacks(h)
    \/ \E h \in Hosts : Callback(h)
    \/ \E h \in Hosts : ResultDone(h)

\* the invocations the registered callbacks are owed for the result of host h
Owed(h) ==
    [k \in 1..Len(rep[h].registered) |->
        [cb |-> rep[h].registered[k], host |-> h, changed |-> rep[h].changed,
         isHealthy |-> rep[h].isHealthy, counted |-> TRUE, adjusted |-> TRUE]]

\* C12: when the processing of a result is over, every callback registered
\* when it was reported has been invoked exactly once, in registration order,
\* with the host, the reported changed flag and isHealthy of the result, after
\* the success / failure counter and localProcessHealthy were updated for it;
\* and no invocation is made before these updates or out of that order.
C12_CallbacksRunForEveryResult ==
    \A h \in Hosts :
        /\ (rep[h].pc = "call" /\ rep[h].i > Len(rep[h].cbs))
              => rep[h].log = Owed(h)
        /\ rep[h].log = SubSeq(Owed(h), 1, Len(rep[h].log))

\* C12 witness: two different callbacks were invoked for a failure that did
\* not change the host's state, and the processing of the result is over.
C12_Witness ==
    \E h \in Hosts :
        /\ rep[h].pc = "call"
        /\ rep[h].i > Len(rep[h].cbs)
        /\ Len(rep[h].log) = 2
        /\ rep[h].log[1].cb # rep[h].log[2].cb
        /\ ~rep[h].changed
        /\ ~rep[h].isHealthy

\* ================================================= one per-host checker

\* the thresholds a cluster may be configured with
Thresholds == 1..MaxThreshold

\* c: the checker; healthyThreshold, unhealthyThreshold: its configuration;
\* history: fed, the results it has handled; runS / runF, the length of the
\* run of consecutive successes / failures the last result belongs to; last,
\* the last result, the state it found and the changed flag reported for it
NewHysteresis(ht, ut) ==
    [c |-> NewChecker, healthyThreshold |-> ht, unhealthyThreshold |-> ut,
     fed |-> 0, runS |-> 0, runF |-> 0,
     last |-> [success |-> FALSE, wasHealthy |-> TRUE, changed |-> FALSE]]

\* a checker of a cluster with the thresholds of the checked cluster
HystInit ==
    hyst = NewHysteresis(HealthyThreshold, UnhealthyThreshold)

\* newChecker for a cluster configured with thresholds ht and ut
CreateChecker(ht, ut) ==
    /\ hyst' = NewHysteresis(ht, ut)
    /\ UNCHANGED hystFrame

\* the probe succeeds
CheckSucceeds ==
    /\ hyst.fed < MaxFed
    /\ LET r == OnSuccess(hyst.c, hyst.healthyThreshold) IN
          hyst' = [hyst EXCEPT !.c = r.checker, !.fed = @ + 1,
                               !.runS = @ + 1, !.runF = 0,
                               !.last = [success |-> TRUE,
                                         wasHealthy |-> hyst.c.healthy,
                                         changed |-> r.changed]]
    /\ UNCHANGED hystFrame

\* the probe fails
CheckFails ==
    /\ hyst.fed < MaxFed
    /\ LET r == OnFailure(hyst.c, hyst.unhealthyThreshold) IN
          hyst' = [hyst EXCEPT !.c = r.checker, !.fed = @ + 1,
                               !.runF = @ + 1, !.runS = 0,
                               !.last = [success |-> FALSE,
                                         wasHealthy |-> hyst.c.healthy,
                                         changed |-> r.changed]]
    /\ UNCHANGED hystFrame

HystNext ==
    \/ \E ht \in Thresholds, ut \in Thresholds : CreateChecker(ht, ut)
    \/ CheckSucceeds
    \/ CheckFails

\* C15: a checker starts Healthy; a failure flips it to Unhealthy exactly when
\* it finds the checker Healthy and brings the run of consecutive failures to
\* unhealthyThreshold, a success flips it to Healthy exactly when it finds
\* the checker Unhealthy and brings the run of consecutive successes to
\* healthyThreshold, no other result changes the state, and changed is
\* reported on exactly the flipping results.
C15_ThresholdHysteresis ==
    /\ hyst.fed = 0 => hyst.c.healthy
    /\ hyst.fed > 0 =>
          LET flipDown == /\ ~hyst.last.success /\ hyst.last.wasHealthy
                          /\ hyst.runF = hyst.unhealthyThreshold
              flipUp   == /\ hyst.last.success /\ ~hyst.last.wasHealthy
                          /\ hyst.runS = hyst.healthyThreshold
          IN  /\ hyst.last.changed <=> (flipDown \/ flipUp)
              /\ (hyst.c.healthy # hyst.last.wasHealthy) <=> hyst.last.changed
              /\ flipDown => ~hyst.c.healthy
              /\ flipUp => hyst.c.healthy

\* C15 witness: with thresholds 2 and 3 the checker went down on the 3rd of
\* three failures and has just come back up on the 2nd of two successes.
C15_Witness ==
    /\ hyst.healthyThreshold = 2
    /\ hyst.unhealthyThreshold = 3
    /\ hyst.fed = 5
    /\ hyst.runS = 2
    /\ hyst.last.changed
    /\ hyst.c.healthy

\* ======================================================= getCheckInterval

\* time.Duration is an int64; here a two's complement integer of DurationBits
\* bits, one unit a second
MaxDuration == 2 ^ (DurationBits - 1) - 1

MinDuration == 0 - 2 ^ (DurationBits - 1)

Durations == MinDuration..MaxDuration

\* the value a Duration holds after an addition
Wrap(x) == ((x - MinDuration) % (2 ^ DurationBits)) + MinDuration

\* the v2.HealthCheck nobody has filled in
ZeroCfg == [Interval |-> 0, IntervalJitter |-> 0]

NoInterval == [returned |-> FALSE, value |-> 0]

\* newHealthChecker: interval := DefaultInterval; if cfg.Interval != 0
\* { interval = cfg.Interval }
IntervalOf(c) == IF c.Interval # 0 THEN c.Interval ELSE DefaultInterval

\* the checker of a cluster whose configuration sets neither value
IntervalInit ==
    /\ cfg = ZeroCfg
    /\ intervalBase = IntervalOf(ZeroCfg)
    /\ intervalJitter = ZeroCfg.IntervalJitter
    /\ interval = NoInterval

\* newHealthChecker(cfg, ...) for the configuration of a cluster; a checker is
\* built once, before its first interval is asked for
NewHealthChecker ==
    /\ cfg = ZeroCfg
    /\ ~interval.returned
    /\ \E ci \in Durations, cj \in Durations :
          LET c == [Interval |-> ci, IntervalJitter |-> cj] IN
             /\ cfg' = c
             /\ intervalBase' = IntervalOf(c)
             /\ intervalJitter' = c.IntervalJitter
    /\ UNCHANGED interval
    /\ UNCHANGED intervalFrame

\* the draw may also return n
Int63n_Inclusive(n) == 0..n

\* hc.rander.Int63n(n): a number of [0, n)
Int63n(n) == 0..(n - 1)

\* getCheckInterval; a call changes nothing of the checker but the state of
\* its rander, so the first call of a checker stands for each of its calls
GetCheckInterval ==
    /\ ~interval.returned
    /\ IF intervalJitter > 0
          THEN \E r \in Int63n(intervalJitter) :
                  interval' = [returned |-> TRUE, value |-> Wrap(intervalBase + r)]
          ELSE interval' = [returned |-> TRUE, value |-> intervalBase]
    /\ UNCHANGED <<cfg, intervalBase, intervalJitter>>
    /\ UNCHANGED intervalFrame

IntervalNext ==
    \/ NewHealthChecker
    \/ GetCheckInterval

\* intervalBase is the configured interval, or 15s when that is zero
BaseAsConfigured ==
    intervalBase = (IF cfg.Interval = 0 THEN DefaultInterval ELSE cfg.Interval)

\* C17 (as stated): every interval returned lies in
\* [intervalBase, intervalBase + intervalJitter) when intervalJitter > 0 and
\* is intervalBase when intervalJitter = 0, intervalBase being the configured
\* interval or 15s when that is zero.
C17_JitterBound ==
    /\ BaseAsConfigured
    /\ interval.returned =>
          /\ intervalJitter > 0 =>
                /\ intervalBase <= interval.value
                /\ interval.value < intervalBase + intervalJitter
          /\ intervalJitter = 0 => interval.value = intervalBase

\* C17 (amended): the same, for the configurations whose
\* intervalBase + intervalJitter is a Duration.
C17_JitterBoundInRange ==
    /\ BaseAsConfigured
    /\ (interval.returned /\ intervalBase + intervalJitter <= MaxDuration) =>
          /\ intervalJitter > 0 =>
                /\ intervalBase <= interval.value
                /\ interval.value < intervalBase + intervalJitter
          /\ intervalJitter = 0 => interval.value = intervalBase

\* C17 witness: the interval is not configured, the jitter is, and the
\* interval returned is the default plus the largest draw.
C17_Witness ==
    /\ cfg.Interval = 0
    /\ intervalJitter > 1
    /\ intervalBase + intervalJitter <= MaxDuration
    /\ interval.returned
    /\ interval.value = DefaultInterval + intervalJitter - 1

\* ============================================================ stats store

\* the metric types and the label maps callers ask for: no label, one label
\* (two values, two keys), maxLabelCount labels and one more than that
Types == {"healthcheck", "upstream"}

LabelMaps ==
    {<< >>, [k \in {1} |-> "a"], [k \in {1} |-> "b"], [k \in {2} |-> "a"],
     [k \in 1..maxLabelCount |-> "a"], [k \in 1..(maxLabelCount + 1) |-> "a"]}

Callers == 1..NumCallers

\* the value of storeMutex while no caller holds it
Unlocked == 0

\* len(m)
MapLen(m) == Cardinality(DOMAIN m)

\* the maps are compared by their length only
MapEqual_LenOnly(x, y) == MapLen(x) = MapLen(y)

\* mapEqual(x, y)
MapEqual(x, y) ==
    /\ MapLen(x) = MapLen(y)
    /\ \A k \in DOMAIN x : k \in DOMAIN y /\ y[k] = x[k]

\* the cap is tested with >=
LabelCountExceeded_Inclusive(labels) == MapLen(labels) >= maxLabelCount

\* len(labels) > maxLabelCount
LabelCountExceeded(labels) == MapLen(labels) > maxLabelCount

NilMetrics == [id |-> 0, typ |-> "nil", labels |-> << >>]

\* pc: where the caller is in NewStats; typ, labels: its arguments
CallerIdle == [pc |-> "idle", typ |-> "nil", labels |-> << >>]

\* what a NewStats(typ, labels) call returned
Returned(typ, labels, metric, err) ==
    [typ |-> typ, labels |-> labels, metric |-> metric, err |-> err]

\* no NewStats call has returned yet
NoReturn == Returned("nil", << >>, NilMetrics, "none")

\* the indexes of the stored metrics that match (typ, labels)
Matches(typ, labels) ==
    {i \in 1..Len(metrics) :
        metrics[i].typ = typ /\ MapEqual(metrics[i].labels, labels)}

\* NewStats calls that may still create a metric
Pending == {p \in Callers : caller[p].pc \in {"lock", "locked"}}

\* init: defaultStore = &store{metrics: make([]types.Metrics, 0, 100)}
StatsInit ==
    /\ metrics = << >>
    /\ storeMutex = Unlocked
    /\ created = 0
    /\ caller = [p \in Callers |-> CallerIdle]
    /\ ret = NoReturn

\* NewStats(typ, labels) with too many labels: return nil, errLabelCountExceeded
NewStatsExceeded(p) ==
    /\ caller[p].pc = "idle"
    /\ \E typ \in Types, labels \in LabelMaps :
          /\ LabelCountExceeded(labels)
          /\ ret' = Returned(typ, labels, NilMetrics, "errLabelCountExceeded")
    /\ UNCHANGED <<metrics, storeMutex, created, caller>>
    /\ UNCHANGED statsFrame

\* NewStats(typ, labels) is called and the label count passes; the caller
\* goes on to lock the store
NewStatsCall(p) ==
    /\ caller[p].pc = "idle"
    /\ created + Cardinality(Pending) < MaxCreated
    /\ \E typ \in Types, labels \in LabelMaps :
          /\ ~LabelCountExceeded(labels)
          /\ caller' = [caller EXCEPT ![p] =
                           [pc |-> "lock", typ |-> typ, labels |-> labels]]
    /\ UNCHANGED <<metrics, storeMutex, created, ret>>
    /\ UNCHANGED statsFrame

\* defaultStore.mutex.Lock()
NewStatsLock(p) ==
    /\ caller[p].pc = "lock"
    /\ storeMutex = Unlocked
    /\ storeMutex' = p
    /\ caller' = [caller EXCEPT ![p].pc = "locked"]
    /\ UNCHANGED <<metrics, created, ret>>
    /\ UNCHANGED statsFrame

\* the existence check finds the metric: return it; the deferred Unlock
NewStatsFound(p) ==
    /\ caller[p].pc = "locked"
    /\ Matches(caller[p].typ, caller[p].labels) # {}
    /\ LET i == Min(Matches(caller[p].typ, caller[p].labels)) IN
          ret' = Returned(caller[p].typ, caller[p].labels, metrics[i], "none")
    /\ caller' = [caller EXCEPT ![p] = CallerIdle]
    /\ storeMutex' = Unlocked
    /\ UNCHANGED <<metrics, created>>
    /\ UNCHANGED statsFrame

\* the existence check finds nothing: a new Stats is appended and returned;
\* the deferred Unlock
NewStatsCreate(p) ==
    /\ caller[p].pc = "locked"
    /\ Matches(caller[p].typ, caller[p].labels) = {}
    /\ LET s == [id |-> created + 1, typ |-> caller[p].typ,
                 labels |-> caller[p].labels] IN
          /\ metrics' = Append(metrics, s)
          /\ ret' = Returned(caller[p].typ, caller[p].labels, s, "none")
    /\ caller' = [caller EXCEPT ![p] = CallerIdle]
    /\ created' = created + 1
    /\ storeMutex' = Unlocked
    /\ UNCHANGED statsFrame

\* ResetAll: under the lock, every metric is unregistered and the store is
\* cut to length 0
ResetAll ==
    /\ storeMutex = Unlocked
    /\ metrics # << >>
    /\ metrics' = << >>
    /\ UNCHANGED <<storeMutex, created, caller, ret>>
    /\ UNCHANGED statsFrame

StatsNext ==
    \/ \E p \in Callers : NewStatsExceeded(p)
    \/ \E p \in Callers : NewStatsCall(p)
    \/ \E p \in Callers : NewStatsLock(p)
    \/ \E p \in Callers : NewStatsFound(p)
    \/ \E p \in Callers : NewStatsCreate(p)
    \/ ResetAll

\* C18: a NewStats call with more than 10 labels returns the
\* label-count-exceeded error and no metrics instance and leaves the store as
\* it is; a call with 10 or fewer labels never returns that error.
C18_LabelCap ==
    /\ [](ret # NoReturn =>
             IF MapLen(ret.labels) > 10
                THEN /\ ret.err = "errLabelCountExceeded"
                     /\ ret.metric = NilMetrics
                ELSE /\ ret.err = "none"
                     /\ ret.metric # NilMetrics)
    /\ [][(ret' # ret /\ MapLen(ret'.labels) > 10)
             => /\ metrics' = metrics
                /\ created' = created
                /\ storeMutex' = storeMutex]_vars

\* C18 witness: a call with 11 labels has failed while the store holds a
\* metric created for 10 labels.
C18_Witness ==
    /\ MapLen(ret.labels) = 11
    /\ ret.err = "errLabelCountExceeded"
    /\ ret.metric = NilMetrics
    /\ \E i \in 1..Len(metrics) : MapLen(metrics[i].labels) = 10

\* C19: the store never holds two metrics of the same type with equal label
\* maps; a NewStats call whose (type, labels) is in the store returns that
\* stored instance and leaves the store as it is, and one whose pair is not in
\* the store appends the instance it returns.
C19_Deduplicated ==
    /\ [](\A i, j \in 1..Len(metrics) :
             (i # j) => ~(/\ metrics[i].typ = metrics[j].typ
                          /\ metrics[i].labels = metrics[j].labels))
    /\ [][\A p \in Callers :
             (caller[p].pc = "locked" /\ caller'[p].pc = "idle")
                => LET held == {i \in 1..Len(metrics) :
                                   /\ metrics[i].typ = caller[p].typ
                                   /\ metrics[i].labels = caller[p].labels}
                   IN  IF held # {}
                          THEN /\ metrics' = metrics
                               /\ \E i \in held : ret'.metric = metrics[i]
                          ELSE /\ metrics' = Append(metrics, ret'.metric)
                               /\ ret'.metric.typ = caller[p].typ
                               /\ ret'.metric.labels = caller[p].labels]_vars

\* C19 witness: a caller was returned the instance the store already held
\* for its pair, while another caller waits for the store with the same pair
\* and the store also holds a metric of the same type and label key with
\* another label value.
C19_Witness ==
    /\ ret.err = "none"
    /\ ret.metric.id < created
    /\ \E q \in Callers :
          /\ caller[q].pc = "lock"
          /\ caller[q].typ = ret.typ
          /\ caller[q].labels = ret.labels
    /\ \E i, j \in 1..Len(metrics) :
          /\ metrics[i] = ret.metric
          /\ metrics[j].typ = metrics[i].typ
          /\ metrics[j].labels # metrics[i].labels
          /\ DOMAIN metrics[j].labels = DOMAIN metrics[i].labels

\* ======================================================== getRouterHeaders

\* header names the matchers carry: a literal, a pattern, and a string that
\* is not a regular expression
HeaderNames == {"service", "svc-.*", "svc-("}

HeaderValues == {"v1", "v2"}

\* v2.HeaderMatcher
HeaderMatchers ==
    [Name : HeaderNames, Value : HeaderValues, Regex : BOOLEAN]

\* the inputs: slices of at most MaxHeaders matchers
RECURSIVE SeqsUpTo(_, _)
SeqsUpTo(S, n) ==
    IF n = 0 THEN {<< >>}
    ELSE LET shorter == SeqsUpTo(S, n - 1)
         IN  shorter \cup {Append(q, x) : q \in {r \in shorter : Len(r) = n - 1},
                                          x \in S}

\* a nil *regexp.Regexp
NilPattern == [compiled |-> FALSE, expr |-> ""]

\* regexp.Compile(expr): (pattern, nil), or (nil, err) for a malformed expr
Compile(expr) ==
    IF expr = "svc-("
       THEN [pattern |-> NilPattern, err |-> TRUE]
       ELSE [pattern |-> [compiled |-> TRUE, expr |-> expr], err |-> FALSE]

\* headerData := &types.HeaderData{Name, Value, IsRegex}
HeaderData(header) ==
    [Name |-> header.Name, Value |-> header.Value, IsRegex |-> header.Regex,
     RegexPattern |-> NilPattern]

\* no call yet
RouterInit ==
    /\ headers = << >>
    /\ pos = 1
    /\ headerDatas = << >>

\* getRouterHeaders(headers) is called: var headerDatas []*types.HeaderData
GetRouterHeaders ==
    /\ pos > Len(headers)
    /\ \E hs \in SeqsUpTo(HeaderMatchers, MaxHeaders) :
          headers' = hs
    /\ pos' = 1
    /\ headerDatas' = << >>
    /\ UNCHANGED routerFrame

\* one iteration for a matcher without Regex: append
LoopPlain ==
    /\ pos <= Len(headers)
    /\ ~headers[pos].Regex
    /\ headerDatas' = Append(headerDatas, HeaderData(headers[pos]))
    /\ pos' = pos + 1
    /\ UNCHANGED headers
    /\ UNCHANGED routerFrame

\* one iteration for a matcher with Regex, err != nil: RegexPattern takes the
\* pattern Compile returned, and the entry is appended
LoopRegexErr ==
    /\ pos <= Len(headers)
    /\ headers[pos].Regex
    /\ LET c == Compile(headers[pos].Name) IN
          /\ c.err
          /\ headerDatas' = Append(headerDatas,
                                   [HeaderData(headers[pos]) EXCEPT
                                       !.RegexPattern = c.pattern])
    /\ pos' = pos + 1
    /\ UNCHANGED headers
    /\ UNCHANGED routerFrame

\* one iteration for a matcher with Regex, err == nil: log "compile error"
\* and continue
LoopRegexOk ==
    /\ pos <= Len(headers)
    /\ headers[pos].Regex
    /\ ~Compile(headers[pos].Name).err
    /\ pos' = pos + 1
    /\ UNCHANGED <<headers, headerDatas>>
    /\ UNCHANGED routerFrame

RouterNext ==
    \/ GetRouterHeaders
    \/ LoopPlain
    \/ LoopRegexErr
    \/ LoopRegexOk

\* the entries the matchers hs are to yield: one per matcher, in order, but
\* for the Regex matchers whose pattern does not compile
RECURSIVE Wanted(_)
Wanted(hs) ==
    IF hs = << >> THEN << >>
    ELSE LET h == Head(hs) IN
         IF h.Regex /\ Compile(h.Name).err THEN Wanted(Tail(hs))
         ELSE <<[HeaderData(h) EXCEPT
                    !.RegexPattern = IF h.Regex THEN Compile(h.Name).pattern
                                     ELSE NilPattern]>> \o Wanted(Tail(hs))

\* C20: when getRouterHeaders returns, its result holds the HeaderData of the
\* input matchers in input order, a matcher being skipped only when it has
\* Regex set and its pattern fails to compile, and every entry with IsRegex
\* carries a compiled RegexPattern.
C20_RouterHeaders ==
    pos > Len(headers) =>
        /\ headerDatas = Wanted(headers)
        /\ \A i \in 1..Len(headerDatas) :
              headerDatas[i].IsRegex => headerDatas[i].RegexPattern # NilPattern

\* a timer after newTimer, a healthChecker after newHealthChecker, the stats
\* store after init, no call of getRouterHeaders yet
Init ==
    /\ TimerInit
    /\ HCInit
    /\ CbInit
    /\ HystInit
    /\ IntervalInit
    /\ StatsInit
    /\ RouterInit

HCNext ==
    \/ CallStart
    \/ CallStop
    \/ CallUpdate
    \/ StartCheckExisting
    \/ StartCheckNil
    \/ StartCheckCreate
    \/ StopCheckAbsent
    \/ StopCheckSignal
    \/ StopCheckRemove
    \/ CtlStore
    \/ Return
    \/ \E h \in Hosts : ProbeSuccess(h)
    \/ \E h \in Hosts, reason \in FailureTypes : ProbeFailure(h, reason)
    \/ \E h \in Hosts : TickStore(h)

SpecHC == Init /\ [][HCNext]_vars

SpecTimer == Init /\ [][TimerNext]_vars

SpecCb == Init /\ [][CbNext]_vars

SpecHyst == Init /\ [][HystNext]_vars

SpecInterval == Init /\ [][IntervalNext]_vars

SpecStats == Init /\ [][StatsNext]_vars

SpecRouter == Init /\ [][RouterNext]_vars

====
